---------------------------- MODULE Spec2Model ----------------------------
(***************************************************************************)
(* Catalog store and access filter of app.py (Streamlit portal).           *)
(*                                                                         *)
(* Text values (CSV cells, form fields, grade labels) are sequences of     *)
(* one-character strings, so that str.strip, str.lower, pd.to_numeric and  *)
(* the CSV cell conversions are computed, not assumed.  A pandas NaN cell  *)
(* is the text "nan" (what astype(str) gives for it, and what read_csv     *)
(* itself reads as NaN).  Column names and session roles are plain strings.*)
(***************************************************************************)
EXTENDS Integers, Sequences, FiniteSets, TLC

VARIABLES
    fs,        \* directory: path name -> inode number, 0 when the path is absent
    inode,     \* inode number -> file content
    cache,     \* st.cache_data memo of load_catalogo(CATALOGO_PATH): <<>> or <<df>>
    lock,      \* session computing a cache miss ("none" when free)
    role,      \* session -> st.session_state["user_role"], "anon" when not authenticated
    pc,        \* session -> position of its script run
    ev,        \* session -> the form submitted in this run (NoForm for a plain view)
    df,        \* session -> the table its last load_catalogo call returned
    wr,        \* session -> state of the atomic_write_csv call in progress
    err,       \* session -> exception that ended its last run ("" when none)
    stored,    \* set of content files written under conteudo/ and assets/
    nUploads,  \* number of valid submissions accepted so far (bounded)
    hist,      \* history of what the runs did, read only by the properties
    pure       \* input and result of the last pure-function application

vars == <<fs, inode, cache, lock, role, pc, ev, df, wr, err, stored, nUploads, hist, pure>>

mainVars == <<fs, inode, cache, lock, role, pc, ev, df, wr, err, stored, nUploads, hist>>

-----------------------------------------------------------------------------
(* Bounds of the model.                                                    *)

\* largest number of rows of a table handed to the pure functions
MaxTable == 3
\* number of valid uploads accepted in one behaviour
MaxUploads == 2

-----------------------------------------------------------------------------
(* Text.                                                                   *)

LowerAlpha == <<"a","b","c","d","e","f","g","h","i","j","k","l","m",
                "n","o","p","q","r","s","t","u","v","w","x","y","z">>

UpperAlpha == <<"A","B","C","D","E","F","G","H","I","J","K","L","M",
                "N","O","P","Q","R","S","T","U","V","W","X","Y","Z">>

\* characters str.strip() removes
Whitespace == {" ", "\t", "\n", "\r"}

DigitChars == <<"0","1","2","3","4","5","6","7","8","9">>

LowerChar(c) ==
    IF \E i \in DOMAIN UpperAlpha : UpperAlpha[i] = c
    THEN LowerAlpha[CHOOSE i \in DOMAIN UpperAlpha : UpperAlpha[i] = c]
    ELSE c

\* str.lower()
Lower(s) == [i \in DOMAIN s |-> LowerChar(s[i])]

\* str.strip()
Strip(s) ==
    LET keep == {i \in DOMAIN s : s[i] \notin Whitespace}
    IN  IF keep = {} THEN <<>>
        ELSE LET lo == CHOOSE i \in keep : \A j \in keep : i <= j
                 hi == CHOOSE i \in keep : \A j \in keep : i >= j
             IN  SubSeq(s, lo, hi)

IsDigit(c) == \E i \in DOMAIN DigitChars : DigitChars[i] = c

DigitVal(c) == (CHOOSE i \in DOMAIN DigitChars : DigitChars[i] = c) - 1

RECURSIVE DecimalValue(_)
DecimalValue(s) ==
    IF s = <<>> THEN 0
    ELSE 10 * DecimalValue(SubSeq(s, 1, Len(s) - 1)) + DigitVal(s[Len(s)])

RECURSIVE DecimalText(_)
\* str(n) for n >= 0
DecimalText(n) ==
    IF n < 10 THEN <<DigitChars[n + 1]>>
    ELSE DecimalText(n \div 10) \o <<DigitChars[(n % 10) + 1]>>

\* the grade labels and the keys of the normalization map
T_aprendiz    == <<"a","p","r","e","n","d","i","z">>
T_companheiro == <<"c","o","m","p","a","n","h","e","i","r","o">>
T_mestre      == <<"m","e","s","t","r","e">>
L_Aprendiz    == <<"A","p","r","e","n","d","i","z">>
L_Companheiro == <<"C","o","m","p","a","n","h","e","i","r","o">>
L_Mestre      == <<"M","e","s","t","r","e">>
T_nan         == <<"n","a","n">>
T_empty       == <<>>

GrauLabels == {L_Aprendiz, L_Companheiro, L_Mestre}

-----------------------------------------------------------------------------
(* Access filter.                                                          *)

\* ROLE_LEVEL.get(user_role, 1)
ROLE_LEVEL(user_role) ==
    CASE user_role = "aprendiz"    -> 1
      [] user_role = "companheiro" -> 2
      [] user_role = "mestre"      -> 3
      [] OTHER                     -> 1

\* GRAU_LEVEL.get(grau_minimo, 3)
GRAU_LEVEL(grau_minimo) ==
    CASE grau_minimo = L_Aprendiz    -> 1
      [] grau_minimo = L_Companheiro -> 2
      [] grau_minimo = L_Mestre      -> 3
      [] OTHER                       -> 3

allowed_by_role_open(user_role, grau_minimo) ==
    (IF user_role \in {"aprendiz", "companheiro", "mestre"}
     THEN ROLE_LEVEL(user_role) ELSE 3) >= GRAU_LEVEL(grau_minimo)

allowed_by_role(user_role, grau_minimo) ==
    ROLE_LEVEL(user_role) >= GRAU_LEVEL(grau_minimo)

NormalizeGrau_open(raw) ==
    LET key == Lower(Strip(raw))
    IN  CASE key = T_aprendiz    -> L_Aprendiz
          [] key = T_companheiro -> L_Companheiro
          [] key = T_mestre      -> L_Mestre
          [] OTHER               -> L_Aprendiz

\* .astype(str).str.strip().str.lower().map({...}).fillna("Mestre")
NormalizeGrau(raw) ==
    LET key == Lower(Strip(raw))
    IN  CASE key = T_aprendiz    -> L_Aprendiz
          [] key = T_companheiro -> L_Companheiro
          [] key = T_mestre      -> L_Mestre
          [] OTHER               -> L_Mestre

REQUIRED_COLS == <<"id", "titulo", "autor", "genero", "descricao",
                   "grau_minimo", "arquivo", "capa">>

\* DataFrame.empty: no rows or no columns
DfEmpty(d) == Len(d.rows) = 0 \/ Len(d.cols) = 0

PageFilter_raw(d, user_role) ==
    IF DfEmpty(d) THEN d
    ELSE LET kept == SelectSeq(d.rows,
                         LAMBDA r : allowed_by_role(user_role, r.grau_minimo))
         IN  [d EXCEPT !.rows =
                 [i \in DOMAIN kept |->
                     [kept[i] EXCEPT !.grau_minimo = NormalizeGrau(@)]]]

\* the page's view: normalize grau_minimo of every row, then keep the allowed rows
PageFilter(d, user_role) ==
    IF DfEmpty(d) THEN d
    ELSE LET norm == [i \in DOMAIN d.rows |->
                         [d.rows[i] EXCEPT !.grau_minimo = NormalizeGrau(@)]]
         IN  [d EXCEPT !.rows =
                 SelectSeq(norm, LAMBDA r : allowed_by_role(user_role, r.grau_minimo))]

-----------------------------------------------------------------------------
(* DataFrames and CSV files.                                               *)
(*                                                                         *)
(* A DataFrame is [cols, rows]: cols the column names in order, rows a     *)
(* sequence of functions from column name to cell.  A file content is      *)
(* [ok, hdr, rows]: the header line, the data lines (cells by position),   *)
(* and ok, the set of (encoding, separator) candidates under which         *)
(* pd.read_csv accepts the file (pandas' parser is outside the repository: *)
(* whether a candidate succeeds is a property of the file).  The zero-     *)
(* length file has no header and no lines.                                 *)

Encodings == <<"utf-8", "utf-8-sig", "latin-1">>
Seps      == <<"sniff", ",", ";", "tab">>

AllCandidates == {<<Encodings[i], Seps[j]>> : i \in DOMAIN Encodings, j \in DOMAIN Seps}

Range(f) == {f[i] : i \in DOMAIN f}

ZeroLength == [ok |-> {}, hdr |-> <<>>, rows |-> <<>>]

\* path.stat().st_size == 0
SizeZero(c) == c.hdr = <<>> /\ c.rows = <<>>

EmptyFrame == [cols |-> REQUIRED_COLS, rows |-> <<>>]

\* a cell as read_csv delivers it: the empty field and "nan" are NaN
ReadCell(t) == IF t = T_empty \/ t = T_nan THEN T_nan ELSE t

\* a cell as to_csv writes it: NaN is written as the empty field
WriteCell(v) == IF v = T_nan THEN T_empty ELSE v

ColIndex(hdr, c) == CHOOSE j \in DOMAIN hdr : hdr[j] = c

\* pd.read_csv(path, sep=sep, engine="python", encoding=enc)
ReadCsv(c, enc, sep) ==
    IF <<enc, sep>> \in c.ok
    THEN [ok |-> TRUE,
          df |-> [cols |-> c.hdr,
                  rows |-> [i \in DOMAIN c.rows |->
                              [col \in Range(c.hdr) |->
                                  ReadCell(c.rows[i][ColIndex(c.hdr, col)])]]]]
    ELSE [ok |-> FALSE, df |-> EmptyFrame]

\* df.to_csv(tmp, index=False)
ToCsv(d) ==
    [ok   |-> AllCandidates,
     hdr  |-> d.cols,
     rows |-> [i \in DOMAIN d.rows |->
                 [j \in DOMAIN d.cols |-> WriteCell(d.rows[i][d.cols[j]])]]]

\* the nested for-loops over encodings and separators: the first success
TryCandidates(c) ==
    LET hits == {p \in (DOMAIN Encodings) \X (DOMAIN Seps) :
                    <<Encodings[p[1]], Seps[p[2]]>> \in c.ok}
    IN  IF hits = {} THEN [ok |-> FALSE, df |-> EmptyFrame]
        ELSE LET first == CHOOSE p \in hits : \A q \in hits :
                              p[1] < q[1] \/ (p[1] = q[1] /\ p[2] <= q[2])
             IN  ReadCsv(c, Encodings[first[1]], Seps[first[2]])

EnsureCols_keep(d) ==
    [cols |-> d.cols \o SelectSeq(REQUIRED_COLS, LAMBDA c : c \notin Range(d.cols)),
     rows |-> [i \in DOMAIN d.rows |->
                 [c \in Range(d.cols) \cup Range(REQUIRED_COLS) |->
                     IF c \in Range(d.cols) THEN d.rows[i][c] ELSE T_empty]]]

\* missing required columns filled with "", then df = df[REQUIRED_COLS]
EnsureCols(d) ==
    [cols |-> REQUIRED_COLS,
     rows |-> [i \in DOMAIN d.rows |->
                 [c \in Range(REQUIRED_COLS) |->
                     IF c \in Range(d.cols) THEN d.rows[i][c] ELSE T_empty]]]

\* for c in [...]: if c not in df_atual.columns: df_atual[c] = ""
AddMissingCols(d) ==
    [cols |-> d.cols \o SelectSeq(REQUIRED_COLS, LAMBDA c : c \notin Range(d.cols)),
     rows |-> [i \in DOMAIN d.rows |->
                 [c \in Range(d.cols) \cup Range(REQUIRED_COLS) |->
                     IF c \in Range(d.cols) THEN d.rows[i][c] ELSE T_empty]]]

\* load_catalogo on an existing, non-empty file (the part after the template branch)
ParseCatalog(c) ==
    LET r == TryCandidates(c)
    IN  IF r.ok THEN EnsureCols(r.df) ELSE EmptyFrame

-----------------------------------------------------------------------------
(* Append.                                                                 *)

\* pd.to_numeric(cell, errors="coerce"): the number, or nothing for NaN
ToNumeric(cell) ==
    IF cell # <<>> /\ \A i \in DOMAIN cell : IsDigit(cell[i])
    THEN {DecimalValue(cell)} ELSE {}

SetMax(S) == CHOOSE m \in S : \A x \in S : x <= m

NovoId_same(d) ==
    IF DfEmpty(d) THEN [ok |-> TRUE, id |-> 1]
    ELSE LET nums == UNION {ToNumeric(d.rows[i].id) : i \in DOMAIN d.rows}
         IN  IF nums = {} THEN [ok |-> FALSE, id |-> 0]
             ELSE [ok |-> TRUE, id |-> SetMax(nums)]

NovoId_count(d) == [ok |-> TRUE, id |-> Len(d.rows) + 1]

\* int(pd.to_numeric(df["id"], errors="coerce").max()) + 1 if not df.empty else 1
\* int(NaN) raises ValueError: ok = FALSE
NovoId(d) ==
    IF DfEmpty(d) THEN [ok |-> TRUE, id |-> 1]
    ELSE LET nums == UNION {ToNumeric(d.rows[i].id) : i \in DOMAIN d.rows}
         IN  IF nums = {} THEN [ok |-> FALSE, id |-> 0]
             ELSE [ok |-> TRUE, id |-> SetMax(nums) + 1]

-----------------------------------------------------------------------------
(* Sessions, forms and the initial catalog files.                          *)

Sessions == {"s1", "s2"}

\* number of inodes of the modelled directory
MaxInodes == 4

Roles == {"aprendiz", "companheiro", "mestre"}

\* the roles of the users in auth_config.yaml that the sessions log in as: one
\* that is shown the management area and one that is not
LoginRoles == {"aprendiz", "mestre"}

T_conteudo == <<"c","o","n","t","e","u","d","o">>
T_assets   == <<"a","s","s","e","t","s">>

IsAlnum(c) ==
    \/ IsDigit(c)
    \/ \E i \in DOMAIN LowerAlpha : LowerAlpha[i] = c \/ UpperAlpha[i] = c

safe_filename(name) ==
    [i \in DOMAIN name |->
        IF IsAlnum(name[i]) \/ name[i] \in {"-", "_", ".", " "} THEN name[i] ELSE "_"]

NoForm ==
    [submitted |-> FALSE, titulo |-> <<>>, autor |-> <<>>, genero |-> <<>>,
     descricao |-> <<>>, grau_minimo |-> L_Aprendiz, arquivo |-> <<>>,
     capa |-> <<>>, capaValid |-> FALSE]

\* the submissions of form_upload drawn by the model; arquivo/capa = <<>> is "no file"
Forms ==
    { [submitted |-> TRUE, titulo |-> <<"A">>, autor |-> <<"x">>, genero |-> <<"g">>,
       descricao |-> <<"d">>, grau_minimo |-> L_Aprendiz, arquivo |-> <<"a",".","p">>,
       capa |-> <<>>, capaValid |-> FALSE],
      [submitted |-> TRUE, titulo |-> <<"B">>, autor |-> <<"y">>, genero |-> <<"g">>,
       descricao |-> <<"d">>, grau_minimo |-> L_Mestre, arquivo |-> <<"b","?","p">>,
       capa |-> <<"k",".","j">>, capaValid |-> TRUE],
      [submitted |-> TRUE, titulo |-> <<>>, autor |-> <<"x">>, genero |-> <<"g">>,
       descricao |-> <<"d">>, grau_minimo |-> L_Aprendiz, arquivo |-> <<"a",".","p">>,
       capa |-> <<>>, capaValid |-> FALSE],
      [submitted |-> TRUE, titulo |-> <<"C">>, autor |-> <<"x">>, genero |-> <<"g">>,
       descricao |-> <<"d">>, grau_minimo |-> L_Companheiro, arquivo |-> <<>>,
       capa |-> <<"k",".","j">>, capaValid |-> FALSE],
      [submitted |-> TRUE, titulo |-> <<"D">>, autor |-> <<>>, genero |-> <<"g">>,
       descricao |-> <<"d">>, grau_minimo |-> L_Aprendiz, arquivo |-> <<"a",".","p">>,
       capa |-> <<>>, capaValid |-> FALSE],
      [submitted |-> TRUE, titulo |-> <<"D">>, autor |-> <<"x">>, genero |-> <<>>,
       descricao |-> <<"d">>, grau_minimo |-> L_Aprendiz, arquivo |-> <<"a",".","p">>,
       capa |-> <<>>, capaValid |-> FALSE],
      [submitted |-> TRUE, titulo |-> <<"D">>, autor |-> <<"x">>, genero |-> <<"g">>,
       descricao |-> <<>>, grau_minimo |-> L_Aprendiz, arquivo |-> <<"a",".","p">>,
       capa |-> <<>>, capaValid |-> FALSE] }

FormValid_lax(f) ==
    /\ f.titulo # <<>> /\ f.autor # <<>> /\ f.genero # <<>> /\ f.descricao # <<>>

\* titulo and autor and genero and descricao and arquivo is not None
FormValid(f) ==
    /\ f.titulo # <<>> /\ f.autor # <<>> /\ f.genero # <<>> /\ f.descricao # <<>>
    /\ f.arquivo # <<>>

\* str(destino): conteudo/<grau_minimo.lower()>/<safe_filename(arquivo.name)>
Destino(f) ==
    T_conteudo \o <<"/">> \o Lower(f.grau_minimo) \o <<"/">> \o safe_filename(f.arquivo)

\* assets/<safe_filename(capa.name)>
CapaPath(f) == T_assets \o <<"/">> \o safe_filename(f.capa)

\* the content file and the cover written by a valid submission
StoreFiles(st, f) ==
    LET withFile == st \cup {Destino(f)}
    IN  IF f.capa = <<>> THEN withFile
        ELSE IF f.capaValid THEN withFile \cup {CapaPath(f)}
        ELSE withFile \ {CapaPath(f)}

\* nova_linha, with capa_destino "" unless a valid cover was stored
NovaLinha(f, novo_id) ==
    [id          |-> DecimalText(novo_id),
     titulo      |-> f.titulo,
     autor       |-> f.autor,
     genero      |-> f.genero,
     descricao   |-> f.descricao,
     grau_minimo |-> f.grau_minimo,
     arquivo     |-> Destino(f),
     capa        |-> IF f.capa # <<>> /\ f.capaValid THEN CapaPath(f) ELSE T_empty]

\* pd.concat([df_atual, pd.DataFrame([nova_linha])], ignore_index=True)
Concat(d, linha) == [d EXCEPT !.rows = Append(@, linha)]

\* catalog files found at start: written by hand, or not there at all
JunkFile ==
    [ok   |-> {},
     hdr  |-> <<"id", "titulo">>,
     rows |-> << << <<"1">>, <<"x">>, <<"y">>, <<"z">> >> >>]

EditedFile ==
    [ok   |-> AllCandidates,
     hdr  |-> <<"titulo", "id", "obs", "grau_minimo", "genero">>,
     rows |-> << << <<"P">>, <<"3">>, <<"o">>, <<" ","m","e","s","t","r","e"," ">>, <<"g">> >>,
                 << <<"Q">>, <<"b","a","d">>, <<>>, <<"A","P","R","E","N","D","I","Z">>, <<"g">> >> >>]

LatinFile ==
    [ok   |-> {<<"latin-1", Seps[j]>> : j \in DOMAIN Seps},
     hdr  |-> REQUIRED_COLS,
     rows |-> << << <<>>, <<"R">>, <<"x">>, <<"g">>, <<"d">>, L_Companheiro, <<"f">>, <<>> >> >>]

InitialFiles == {ZeroLength, JunkFile, EditedFile, LatinFile}

-----------------------------------------------------------------------------
(* The file system: two paths of data/, catalogo.csv ("cat") and           *)
(* catalogo.csv.tmp ("tmp"), each naming an inode or absent (0).  A file   *)
(* opened for writing stays the same inode when its path is renamed.       *)

CatExists  == fs.cat # 0
CatContent == inode[fs.cat]

NoWrite == [fd |-> 0, data |-> ZeroLength, ret |-> "none", key |-> <<>>]

Referenced(f, w) == {f.cat, f.tmp} \cup {w[s].fd : s \in Sessions}

FreeInode == CHOOSE n \in 1..MaxInodes :
                /\ n \notin Referenced(fs, wr)
                /\ \A m \in 1..MaxInodes : m \notin Referenced(fs, wr) => n <= m

\* unreferenced inodes are freed
Gc(f, ino, w) ==
    [n \in 1..MaxInodes |-> IF n \in Referenced(f, w) THEN ino[n] ELSE ZeroLength]

\* a write of the whole serialization at offset 0 of a file opened with "w":
\* lines of an earlier writer beyond the new ones stay
Overlay(old, new) ==
    [ok   |-> new.ok,
     hdr  |-> new.hdr,
     rows |-> new.rows \o SubSeq(old.rows, Len(new.rows) + 1, Len(old.rows))]

LoadPos == {"load403", "load577", "load601"}

Init ==
    /\ \/ /\ fs = [cat |-> 0, tmp |-> 0]
          /\ inode = [n \in 1..MaxInodes |-> ZeroLength]
          /\ hist = [origin |-> "absent", ids |-> <<>>, done |-> {}]
       \/ \E f \in InitialFiles :
          /\ fs = [cat |-> 1, tmp |-> 0]
          /\ inode = [n \in 1..MaxInodes |-> IF n = 1 THEN f ELSE ZeroLength]
          /\ hist = [origin |-> IF SizeZero(f) THEN "zero" ELSE "file",
                     ids |-> <<>>, done |-> {}]
    /\ cache = <<>>
    /\ lock = "none"
    /\ role = [s \in Sessions |-> "anon"]
    /\ pc = [s \in Sessions |-> "idle"]
    /\ ev = [s \in Sessions |-> NoForm]
    /\ df = [s \in Sessions |-> <<>>]
    /\ wr = [s \in Sessions |-> NoWrite]
    /\ err = [s \in Sessions |-> "none"]
    /\ stored = {}
    /\ nUploads = 0
    /\ pure = [op |-> "none"]

\* what the script does with the table d a load_catalogo call at pos returned,
\* up to its next access to the catalog: the new pc, ev, err, wr of the session,
\* the stored files and the ids assigned
AfterLoad(s, pos, d) ==
    LET base == [pc |-> "idle", ev |-> NoForm, err |-> err[s], wr |-> NoWrite,
                 stored |-> stored, ids |-> hist.ids]
    IN  CASE pos = "load403" /\ role[s] # "mestre" -> base
          [] pos = "load403" /\ role[s] = "mestre" /\ ~ev[s].submitted ->
                [base EXCEPT !.pc = "load601"]
          [] pos = "load403" /\ role[s] = "mestre" /\ ev[s].submitted ->
                IF FormValid(ev[s])
                THEN [base EXCEPT !.pc = "load577", !.ev = ev[s],
                                  !.stored = StoreFiles(stored, ev[s])]
                ELSE [base EXCEPT !.pc = "load601", !.err = "form"]
          [] pos = "load577" ->
                LET atual == AddMissingCols(d)
                    n     == NovoId(atual)
                    linha == NovaLinha(ev[s], n.id)
                IN  IF n.ok
                    THEN [base EXCEPT !.pc = "w_open", !.ev = ev[s],
                                      !.wr = [fd |-> 0, data |-> ToCsv(Concat(atual, linha)),
                                              ret |-> "upload",
                                              key |-> <<linha.id, linha.titulo>>],
                                      !.ids = Append(hist.ids, n.id)]
                    ELSE [base EXCEPT !.err = "ValueError"]
          [] OTHER -> base

Continue(s, pos, d) ==
    LET a == AfterLoad(s, pos, d)
    IN  /\ df' = [df EXCEPT ![s] = <<d>>]
        /\ pc' = [pc EXCEPT ![s] = a.pc]
        /\ ev' = [ev EXCEPT ![s] = a.ev]
        /\ err' = [err EXCEPT ![s] = a.err]
        /\ wr' = [wr EXCEPT ![s] = a.wr]
        /\ stored' = a.stored
        /\ hist' = [hist EXCEPT !.ids = a.ids]

\* a failed login leaves the session as it is; a successful one sets user_role and reruns
Login(s) ==
    /\ pc[s] = "idle" /\ role[s] = "anon"
    /\ \E r \in LoginRoles : role' = [role EXCEPT ![s] = r]
    /\ pc' = [pc EXCEPT ![s] = "load403"]
    /\ err' = [err EXCEPT ![s] = "none"]
    /\ UNCHANGED <<fs, inode, cache, lock, ev, df, wr, stored, nUploads, hist, pure>>

\* logout(): the session keys are dropped, the rerun stops at the access gate
Logout(s) ==
    /\ pc[s] = "idle" /\ role[s] # "anon"
    /\ role' = [role EXCEPT ![s] = "anon"]
    /\ err' = [err EXCEPT ![s] = "none"]
    /\ UNCHANGED <<fs, inode, cache, lock, pc, ev, df, wr, stored, nUploads, hist, pure>>

\* the "Limpar cache de dados" button
ClearButton(s) ==
    /\ pc[s] = "idle" /\ role[s] # "anon"
    /\ cache' = <<>>
    /\ pc' = [pc EXCEPT ![s] = "load403"]
    /\ err' = [err EXCEPT ![s] = "none"]
    /\ UNCHANGED <<fs, inode, lock, role, ev, df, wr, stored, nUploads, hist, pure>>

\* any other interaction of an authenticated session: the script runs again
View(s) ==
    /\ pc[s] = "idle" /\ role[s] # "anon"
    /\ pc' = [pc EXCEPT ![s] = "load403"]
    /\ err' = [err EXCEPT ![s] = "none"]
    /\ UNCHANGED <<fs, inode, cache, lock, role, ev, df, wr, stored, nUploads, hist, pure>>

\* "Salvar" of form_upload, which only a mestre session is shown
Submit(s) ==
    /\ pc[s] = "idle" /\ role[s] = "mestre"
    /\ \E f \in Forms :
          /\ FormValid(f) => nUploads < MaxUploads
          /\ ev' = [ev EXCEPT ![s] = f]
          /\ nUploads' = IF FormValid(f) THEN nUploads + 1 ELSE nUploads
    /\ pc' = [pc EXCEPT ![s] = "load403"]
    /\ err' = [err EXCEPT ![s] = "none"]
    /\ UNCHANGED <<fs, inode, cache, lock, role, df, wr, stored, hist, pure>>

\* a call of load_catalogo(CATALOGO_PATH): the memoized table, or on a miss the
\* template branch (entered here, finished by TplRead) or the parse of the file
Load(s) ==
    /\ pc[s] \in LoadPos
    /\ cache # <<>> \/ lock = "none"
    /\ IF cache # <<>>
       THEN /\ Continue(s, pc[s], cache[1])
            /\ UNCHANGED <<cache, lock>>
       ELSE IF ~CatExists \/ SizeZero(CatContent)
       THEN /\ lock' = s
            /\ wr' = [wr EXCEPT ![s] = [fd |-> 0, data |-> ToCsv(EmptyFrame),
                                        ret |-> pc[s], key |-> <<>>]]
            /\ pc' = [pc EXCEPT ![s] = "w_open"]
            /\ UNCHANGED <<cache, df, ev, err, stored, hist>>
       ELSE /\ cache' = <<ParseCatalog(CatContent)>>
            /\ Continue(s, pc[s], ParseCatalog(CatContent))
            /\ UNCHANGED lock
    /\ UNCHANGED <<fs, inode, role, nUploads, pure>>

\* atomic_write_csv, df.to_csv(tmp): open(tmp, "w") creates or truncates the file
WOpen(s) ==
    /\ pc[s] = "w_open"
    /\ LET n == IF fs.tmp = 0 THEN FreeInode ELSE fs.tmp
       IN  /\ fs' = [fs EXCEPT !.tmp = n]
           /\ inode' = [inode EXCEPT ![n] = ZeroLength]
           /\ wr' = [wr EXCEPT ![s].fd = n]
    /\ pc' = [pc EXCEPT ![s] = "w_write"]
    /\ UNCHANGED <<cache, lock, role, ev, df, err, stored, nUploads, hist, pure>>

\* atomic_write_csv, df.to_csv(tmp): the rows are written and the file closed
WWrite(s) ==
    /\ pc[s] = "w_write"
    /\ LET w == [wr EXCEPT ![s].fd = 0]
       IN  /\ wr' = w
           /\ inode' = Gc(fs, [inode EXCEPT ![wr[s].fd] = Overlay(@, wr[s].data)], w)
    /\ pc' = [pc EXCEPT ![s] = "w_replace"]
    /\ UNCHANGED <<fs, cache, lock, role, ev, df, err, stored, nUploads, hist, pure>>

\* atomic_write_csv, tmp.replace(path): FileNotFoundError when tmp is gone
WReplace(s) ==
    /\ pc[s] = "w_replace"
    /\ IF fs.tmp = 0
       THEN /\ pc' = [pc EXCEPT ![s] = "idle"]
            /\ err' = [err EXCEPT ![s] = "FileNotFoundError"]
            /\ ev' = [ev EXCEPT ![s] = NoForm]
            /\ wr' = [wr EXCEPT ![s] = NoWrite]
            /\ lock' = IF lock = s THEN "none" ELSE lock
            /\ UNCHANGED <<fs, inode>>
       ELSE /\ fs' = [cat |-> fs.tmp, tmp |-> 0]
            /\ inode' = Gc([cat |-> fs.tmp, tmp |-> 0], inode, wr)
            /\ pc' = [pc EXCEPT ![s] = IF wr[s].ret = "upload" THEN "clear" ELSE "tpl_read"]
            /\ wr' = [wr EXCEPT ![s].data = ZeroLength]
            /\ UNCHANGED <<err, ev, lock>>
    /\ UNCHANGED <<cache, role, df, stored, nUploads, hist, pure>>

\* write_template is done: return pd.read_csv(path), which the memo keeps
TplRead(s) ==
    /\ pc[s] = "tpl_read"
    /\ LET r == ReadCsv(CatContent, "utf-8", ",")
       IN  IF r.ok
           THEN /\ cache' = <<r.df>>
                /\ Continue(s, wr[s].ret, r.df)
           ELSE /\ pc' = [pc EXCEPT ![s] = "idle"]
                /\ err' = [err EXCEPT ![s] = "EmptyDataError"]
                /\ ev' = [ev EXCEPT ![s] = NoForm]
                /\ wr' = [wr EXCEPT ![s] = NoWrite]
                /\ UNCHANGED <<cache, df, stored, hist>>
    /\ lock' = "none"
    /\ UNCHANGED <<fs, inode, role, nUploads, pure>>

\* st.success, st.cache_data.clear(), st.rerun()
CacheClear(s) ==
    /\ pc[s] = "clear"
    /\ cache' = <<>>
    /\ hist' = [hist EXCEPT !.done = @ \cup {wr[s].key}]
    /\ wr' = [wr EXCEPT ![s] = NoWrite]
    /\ ev' = [ev EXCEPT ![s] = NoForm]
    /\ pc' = [pc EXCEPT ![s] = "load403"]
    /\ UNCHANGED <<fs, inode, lock, role, df, err, stored, nUploads, pure>>

Step(s) ==
    \/ Login(s) \/ Logout(s) \/ ClearButton(s) \/ View(s) \/ Submit(s)
    \/ Load(s) \/ WOpen(s) \/ WWrite(s) \/ WReplace(s) \/ TplRead(s) \/ CacheClear(s)

\* the sessions' scripts run in threads of one server process
Next == \E s \in Sessions : Step(s)

Spec == Init /\ [][Next]_vars

\* one script run at a time: a session acts only while every other one is idle
NextSeq == \E s \in Sessions : (\A t \in Sessions \ {s} : pc[t] = "idle") /\ Step(s)

SpecSeq == Init /\ [][NextSeq]_vars

-----------------------------------------------------------------------------
(* The pure functions applied to drawn inputs.                             *)

UpperChar(c) ==
    IF \E i \in DOMAIN LowerAlpha : LowerAlpha[i] = c
    THEN UpperAlpha[CHOOSE i \in DOMAIN LowerAlpha : LowerAlpha[i] = c]
    ELSE c

\* the ways an editor may have cased a word
Casings == {"lower", "upper", "capital", "mixed"}

ApplyCase(casing, w) ==
    [i \in DOMAIN w |->
        CASE casing = "upper"   -> UpperChar(w[i])
          [] casing = "capital" -> IF i = 1 THEN UpperChar(w[i]) ELSE w[i]
          [] casing = "mixed"   -> IF i % 2 = 0 THEN UpperChar(w[i]) ELSE w[i]
          [] OTHER              -> w[i]]

Pads == {<<>>, <<" ">>, <<"\t", " ">>, <<"\n">>}

\* trimmed, lower-case words: the three keys and texts that are none of them
BaseWords ==
    {T_aprendiz, T_companheiro, T_mestre, T_empty, T_nan, <<"x","y","z">>,
     <<"m","e","s","t","r">>, <<"m","e","s","t","r","e","s">>,
     <<"m","e","s"," ","t","r","e">>, <<"a","p","r","e","n","d","i","z","e","s">>,
     <<"1">>, <<"c","o","m","p","a","n","h","e","i","r","a">>}

\* viewer roles handed to allowed_by_role: the three of ROLE_LEVEL and others
ViewerRoles == Roles \cup {"Mestre", "MESTRE", "admin", ""}

\* raw grau_minimo cells of the tables handed to the page filter
GrauSample ==
    {<<" ","m","e","s","t","r","e"," ">>, <<"A","P","R","E","N","D","I","Z">>,
     L_Companheiro, T_aprendiz, T_nan, <<"x","y","z">>}

\* id cells of the tables handed to the id assignment
IdSample == {<<"1">>, <<"3">>, <<"1","2">>, <<"b","a","d">>, T_nan, T_empty}

CellTables(cells) == UNION {[1..n -> cells] : n \in 0..MaxTable}

\* the table whose i-th row has id i and the i-th grade of graus
GrauTable(graus) ==
    [cols |-> REQUIRED_COLS,
     rows |-> [i \in DOMAIN graus |->
                 [c \in Range(REQUIRED_COLS) |->
                     CASE c = "id" -> DecimalText(i)
                       [] c = "grau_minimo" -> graus[i]
                       [] OTHER -> T_empty]]]

\* the table whose i-th row has the i-th id of ids
IdTable(ids) ==
    [cols |-> REQUIRED_COLS,
     rows |-> [i \in DOMAIN ids |->
                 [c \in Range(REQUIRED_COLS) |->
                     IF c = "id" THEN ids[i] ELSE T_empty]]]

DoNormalize ==
    /\ pure.op = "none"
    /\ \E base \in BaseWords, casing \in Casings, p1 \in Pads, p2 \in Pads :
          LET raw == p1 \o ApplyCase(casing, base) \o p2
          IN  pure' = [op |-> "normalize", base |-> base, raw |-> raw,
                       out |-> NormalizeGrau(raw)]
    /\ UNCHANGED mainVars

DoAllowed ==
    /\ pure.op = "none"
    /\ \E r \in ViewerRoles, g \in GrauLabels :
          pure' = [op |-> "allowed", role |-> r, grau |-> g,
                   out |-> allowed_by_role(r, g)]
    /\ UNCHANGED mainVars

DoFilter ==
    /\ pure.op = "none"
    /\ \E graus \in CellTables(GrauSample), r \in ViewerRoles :
          pure' = [op |-> "filter", table |-> GrauTable(graus), role |-> r,
                   out |-> PageFilter(GrauTable(graus), r)]
    /\ UNCHANGED mainVars

DoNovoId ==
    /\ pure.op = "none"
    /\ \E ids \in CellTables(IdSample) :
          pure' = [op |-> "novo_id", table |-> IdTable(ids),
                   out |-> NovoId(IdTable(ids))]
    /\ UNCHANGED mainVars

NextPure == DoNormalize \/ DoAllowed \/ DoFilter \/ DoNovoId

SpecPure == Init /\ [][NextPure]_vars

-----------------------------------------------------------------------------
(* Properties.                                                             *)

\* the ranks the specification gives: Apprentice 1 < Companion 2 < Master 3
GradeRank(label) ==
    CASE label = L_Aprendiz -> 1 [] label = L_Companheiro -> 2 [] label = L_Mestre -> 3

ViewerRank(r) ==
    CASE r = "aprendiz" -> 1 [] r = "companheiro" -> 2 [] r = "mestre" -> 3 [] OTHER -> 1

\* C1: the filtered view holds exactly the rows whose normalized minimum grade
\* has rank <= the viewer's rank, normalized, in the order of the loaded table
C1_ViewIsAllowedRowsInOrder ==
    pure.op = "filter" =>
        LET t == pure.table.rows
            v == pure.out.rows
            K == {i \in DOMAIN t :
                    GradeRank(NormalizeGrau(t[i].grau_minimo)) <= ViewerRank(pure.role)}
        IN  /\ Len(v) = Cardinality(K)
            /\ \A i \in K :
                  v[Cardinality({k \in K : k <= i})] =
                      [t[i] EXCEPT !.grau_minimo = NormalizeGrau(@)]
            /\ \A j \in DOMAIN v : GradeRank(v[j].grau_minimo) <= ViewerRank(pure.role)

\* a companheiro views three rows; the middle one (" mestre ") is dropped and the
\* other two, one of them written "APRENDIZ", stay in order
C1_Witness ==
    /\ pure.op = "filter" /\ pure.role = "companheiro"
    /\ Len(pure.table.rows) = 3 /\ Len(pure.out.rows) = 2
    /\ pure.table.rows[1].grau_minimo = <<"A","P","R","E","N","D","I","Z">>
    /\ pure.table.rows[2].grau_minimo = <<" ","m","e","s","t","r","e"," ">>
    /\ pure.out.rows[1].id = <<"1">> /\ pure.out.rows[2].id = <<"3">>

\* C2: allowed_by_role is the truth table of rank(viewer) >= rank(grade), a viewer
\* role outside the three recognized ones counting as aprendiz
C2_TruthTable ==
    pure.op = "allowed" =>
        LET viewer == IF pure.role \in Roles THEN pure.role ELSE "aprendiz"
        IN  pure.out <=>
               <<viewer, pure.grau>> \in
                   {<<"aprendiz", L_Aprendiz>>,
                    <<"companheiro", L_Aprendiz>>, <<"companheiro", L_Companheiro>>,
                    <<"mestre", L_Aprendiz>>, <<"mestre", L_Companheiro>>,
                    <<"mestre", L_Mestre>>}

\* an unrecognized viewer role is refused a Companheiro entry
C2_Witness ==
    /\ pure.op = "allowed" /\ pure.role = "Mestre"
    /\ pure.grau = L_Companheiro /\ pure.out = FALSE

\* C3: the normalized grade is one of the three labels: the label of the key the
\* trimmed, lower-cased text equals, and Mestre for every other text
C3_FailClosed ==
    pure.op = "normalize" =>
        /\ pure.out \in GrauLabels
        /\ pure.out = CASE pure.base = T_aprendiz    -> L_Aprendiz
                        [] pure.base = T_companheiro -> L_Companheiro
                        [] pure.base = T_mestre      -> L_Mestre
                        [] OTHER                     -> L_Mestre

\* a padded, upper-case "COMPANHEIRO" is recognized
C3_Witness ==
    /\ pure.op = "normalize" /\ pure.base = T_companheiro
    /\ pure.raw = <<" ">> \o ApplyCase("upper", T_companheiro) \o <<"\n">>
    /\ pure.out = L_Companheiro

\* the number an id cell of the drawn tables stands for (none when not a number)
SampleNumber(cell) ==
    CASE cell = <<"1">> -> {1} [] cell = <<"3">> -> {3} [] cell = <<"1","2">> -> {12}
      [] OTHER -> {}

\* C4: the new id is 1 for the empty table and otherwise the largest id that is a
\* number, plus 1, the ids that are no numbers counting as absent; this for every
\* table, those with no numeric id included
C4_NewIdIsMaxPlusOne ==
    pure.op = "novo_id" =>
        LET nums == UNION {SampleNumber(pure.table.rows[i].id) :
                              i \in DOMAIN pure.table.rows}
        IN  /\ pure.out.ok
            /\ pure.out.id = IF nums = {} THEN 1 ELSE SetMax(nums) + 1

\* what a reader finds at the catalog path
Absent == [ok |-> {}, hdr |-> <<"<absent>">>, rows |-> <<>>]

CatView == IF CatExists THEN CatContent ELSE Absent

\* the entries a file content holds: the eight cells of every row as text, a
\* column the file lacks being empty; none when the file cannot be read
FileEntries(c) ==
    IF c.ok = {} THEN <<>>
    ELSE [i \in DOMAIN c.rows |->
            [j \in DOMAIN REQUIRED_COLS |->
                IF REQUIRED_COLS[j] \in Range(c.hdr)
                THEN WriteCell(ReadCell(c.rows[i][ColIndex(c.hdr, REQUIRED_COLS[j])]))
                ELSE T_empty]]

\* the catalog's entries
CatEntries == FileEntries(CatView)

Unparsable(c) == ~SizeZero(c) /\ c.ok = {}

\* session s gets a table back from load_catalogo in this step
Returned(s) ==
    \/ pc[s] \in LoadPos /\ pc'[s] # pc[s] /\ lock' = lock
    \/ pc[s] = "tpl_read" /\ err'[s] # "EmptyDataError"

\* C5: what the catalog path holds changes only by a replace that installs the
\* table its writer has fully written to the temporary file: a reader finds the
\* previous table or the new one, never a partly written file
C5_AtomicPersist ==
    [][CatView' # CatView =>
          \E s \in Sessions : /\ pc[s] = "w_replace" /\ pc'[s] # "w_replace"
                              /\ CatView' = wr[s].data]_vars

\* C6: while the catalog file is not parsable, a load returns the empty
\* eight-column table and no operation changes the file
C6_UnparsableNeverOverwritten ==
    [][(CatExists /\ Unparsable(CatContent)) =>
          /\ CatView' = CatView
          /\ \A s \in Sessions : Returned(s) => df'[s] = <<EmptyFrame>>]_vars

\* the id cells of the rows of a file
FileIds(c) ==
    IF \E j \in DOMAIN c.hdr : c.hdr[j] = "id"
    THEN [i \in DOMAIN c.rows |-> c.rows[i][ColIndex(c.hdr, "id")]]
    ELSE <<>>

\* C7: from an absent or zero-length catalog file and with script runs that do
\* not overlap, the ids of the persisted rows are pairwise distinct and every
\* id assigned is greater than all assigned before it
C7_UniqueIncreasingIds ==
    hist.origin \in {"absent", "zero"} =>
        /\ \A i, j \in DOMAIN FileIds(CatView) :
              i # j => FileIds(CatView)[i] # FileIds(CatView)[j]
        /\ \A i, j \in DOMAIN hist.ids : i < j => hist.ids[i] < hist.ids[j]
        /\ \A i \in DOMAIN hist.ids : hist.ids[i] >= 1

\* two uploads after an absent file: rows 1 and 2 are in the file
C7_Witness ==
    /\ hist.origin = "absent" /\ hist.ids = <<1, 2>>
    /\ CatExists /\ FileIds(CatView) = << <<"1">>, <<"2">> >>
    /\ \A s \in Sessions : pc[s] = "idle"

\* C8: the catalog's entries change only when a mestre session's upload replaces
\* the file, and then every entry that was there stays in place and one is added
\* at the end
C8_OnlyMestreAppends ==
    [][CatEntries' # CatEntries =>
          \E s \in Sessions :
              /\ role[s] = "mestre" /\ pc[s] = "w_replace" /\ wr[s].ret = "upload"
              /\ pc'[s] = "clear"
              /\ Len(CatEntries') = Len(CatEntries) + 1
              /\ SubSeq(CatEntries', 1, Len(CatEntries)) = CatEntries]_vars

HasEntry(d, key) == \E i \in DOMAIN d.rows : <<d.rows[i].id, d.rows[i].titulo>> = key

\* C9: once an upload has persisted and cleared the memo, every load returns a
\* table with its entry, and the table an append starts from is the one in the file
C9_LoadsAreFresh ==
    [][\A s \in Sessions : Returned(s) =>
          /\ \A key \in hist.done : HasEntry(df'[s][1], key)
          /\ pc[s] = "load577" => ToCsv(df'[s][1]).rows = CatEntries]_vars

\* C10: every table load_catalogo returns has the eight columns in order; when the
\* memo is filled from the file, a required column the file lacks is "" in every
\* row, the others carry the file's cells, and no other column is kept; a file
\* that cannot be parsed gives no rows
C10_EightColumns ==
    /\ [](\A s \in Sessions : df[s] # <<>> =>
             /\ df[s][1].cols = REQUIRED_COLS
             /\ \A i \in DOMAIN df[s][1].rows :
                   DOMAIN df[s][1].rows[i] = Range(REQUIRED_COLS))
    /\ [][(cache = <<>> /\ cache' # <<>>) =>
             LET d == cache'[1]
                 c == CatContent
             IN  /\ d.cols = REQUIRED_COLS
                 /\ IF c.ok = {} THEN d.rows = <<>>
                    ELSE /\ Len(d.rows) = Len(c.rows)
                         /\ \A i \in DOMAIN d.rows : \A col \in Range(REQUIRED_COLS) :
                               d.rows[i][col] =
                                  IF col \in Range(c.hdr)
                                  THEN ReadCell(c.rows[i][ColIndex(c.hdr, col)])
                                  ELSE T_empty]_vars

\* a session holds the table of the hand-written file that lacks capa and autor
\* and has the extra column obs
C10_Witness ==
    \E s \in Sessions :
        /\ df[s] # <<>> /\ Len(df[s][1].rows) = 2
        /\ df[s][1].rows[1].id = <<"3">> /\ df[s][1].rows[1].capa = T_empty
        /\ df[s][1].rows[2].autor = T_empty /\ df[s][1].rows[2].titulo = <<"Q">>
        /\ CatExists /\ CatContent = EditedFile

\* the file write_template leaves: the header line of the eight columns, no row
HeaderOnly == [ok |-> AllCandidates, hdr |-> REQUIRED_COLS, rows |-> <<>>]

\* session s starts a load_catalogo call that misses the memo in this step
MissedLoad(s) == pc[s] \in LoadPos /\ pc'[s] # pc[s] /\ cache = <<>>

\* C11: a load that finds no file or a zero-length file writes the template (it
\* does not parse and does not return yet); its replace puts the header-only file
\* at the catalog path, and its return leaves that file there and hands back the
\* eight columns with zero rows; a load of the header-only file returns that same
\* empty table and leaves the file as it is
C11_TemplateOnAbsentOrEmpty ==
    [][\A s \in Sessions :
          /\ (MissedLoad(s) /\ (~CatExists \/ SizeZero(CatContent))) =>
                /\ pc'[s] = "w_open" /\ wr'[s].data = HeaderOnly
                /\ wr'[s].ret = pc[s] /\ CatView' = CatView
          /\ (pc[s] = "w_replace" /\ pc'[s] # "w_replace" /\ wr[s].ret \in LoadPos) =>
                /\ pc'[s] = "tpl_read"
                /\ CatView' = HeaderOnly
          /\ (pc[s] = "tpl_read" /\ pc'[s] # "tpl_read") =>
                /\ err'[s] # "EmptyDataError"
                /\ df'[s] = <<EmptyFrame>>
                /\ CatView' = HeaderOnly
          /\ (pc[s] \in LoadPos /\ pc'[s] # pc[s] /\ CatView = HeaderOnly) =>
                /\ df'[s] = <<EmptyFrame>>
                /\ CatView' = CatView]_vars

\* a required field of the submission is missing
MissingField(f) ==
    f.titulo = <<>> \/ f.autor = <<>> \/ f.genero = <<>> \/ f.descricao = <<>>
        \/ f.arquivo = <<>>

\* session s takes a step of its script in this step
Moves(s) == pc'[s] # pc[s]

\* C12: the script run of a submission with a missing required field shows the
\* form's error and goes on to the catalog viewer, and no step of that run changes
\* the catalog file, the temporary file, the stored content and cover files or
\* the ids assigned
C12_InvalidSubmissionWritesNothing ==
    [][\A s \in Sessions :
          /\ (Moves(s) /\ pc[s] = "load403" /\ ev[s].submitted /\ MissingField(ev[s])) =>
                /\ pc'[s] = "load601" /\ err'[s] = "form"
                /\ wr'[s] = NoWrite
                /\ fs' = fs /\ inode' = inode /\ stored' = stored
                /\ hist'.ids = hist.ids
          /\ (Moves(s) /\ pc[s] = "load601" /\ err[s] = "form") =>
                /\ pc'[s] = "idle" /\ err'[s] = "form"
                /\ wr'[s] = NoWrite
                /\ fs' = fs /\ inode' = inode /\ stored' = stored
                /\ hist'.ids = hist.ids]_vars

\* the only session that has run made one upload (id 1, one content file stored)
\* and its latest submission, with a missing field, has been rejected: the catalog
\* still has the one entry, nothing else was stored and no further id was assigned
C12_Witness ==
    \E s \in Sessions :
        /\ err[s] = "form" /\ pc[s] = "idle" /\ role[s] = "mestre"
        /\ \A t \in Sessions \ {s} : role[t] = "anon" /\ df[t] = <<>>
        /\ nUploads = 1 /\ hist.ids = <<1>> /\ Len(CatEntries) = 1
        /\ Cardinality(stored) = 1
        /\ fs.tmp = 0

\* session s is between the load of line 577 and the end of its persist
Pending(s) == pc[s] \in {"w_open", "w_write", "w_replace"} /\ wr[s].ret = "upload"

\* the numbers among the ids of a table
NumericIds(d) == UNION {ToNumeric(d.rows[i].id) : i \in DOMAIN d.rows}

\* C13: nothing holds two uploads apart.  The table an upload is about to persist
\* is the table its session was handed at line 577 with one row added, whose id is
\* that table's largest numeric id plus 1, whatever the catalog file holds by then;
\* the session holds no lock meanwhile.  So two mestre sessions handed the same table assign
\* the same id, and the table each persists lacks the other's row: the replace
\* that comes second drops the entry of the first
C13_UncoordinatedAppends ==
    \A s \in Sessions : Pending(s) =>
        LET base == AddMissingCols(df[s][1])
            mine == wr[s].data.rows
        IN  /\ role[s] = "mestre"
            /\ lock # s
            /\ Len(mine) = Len(base.rows) + 1
            /\ SubSeq(mine, 1, Len(base.rows)) = ToCsv(base).rows
            /\ wr[s].key[1] = mine[Len(mine)][ColIndex(wr[s].data.hdr, "id")]
            /\ IF base.rows = <<>> THEN wr[s].key[1] = <<"1">>
               ELSE /\ NumericIds(base) # {}
                    /\ wr[s].key[1] = DecimalText(SetMax(NumericIds(base)) + 1)
            /\ \A t \in Sessions \ {s} : (Pending(t) /\ df[t] = df[s]) =>
                  /\ wr[t].key[1] = wr[s].key[1]
                  /\ Len(wr[t].data.rows) = Len(mine)

\* the catalog file was absent; two uploads with different titles were both given
\* id 1, both ended with their success message and both content files are stored,
\* and the catalog file holds one entry: the other one is lost
C13_Witness ==
    /\ hist.origin = "absent" /\ hist.ids = <<1, 1>>
    /\ Cardinality(hist.done) = 2
    /\ \A s \in Sessions : pc[s] = "idle" /\ err[s] = "none"
    /\ Len(CatEntries) = 1 /\ fs.tmp = 0
    /\ Cardinality(stored) >= 2

=============================================================================
